---- MODULE Spec2Model ----
(***************************************************************************)
(* A model of the three scripts of the repository:                         *)
(*   BackupScript_1_26_2024.py  update_last_modified_and_backup            *)
(*   split_csv.py               split_csv                                  *)
(*   ArcPy_Functions.py         get_bbox, scale_geom                       *)
(* Each script has its own specification (SpecBackup, SpecCsv, SpecBBox,   *)
(* SpecScale); Spec runs any one of them.  The variables of the scripts    *)
(* that a specification does not run stay at their idle values.            *)
(***************************************************************************)
EXTENDS Integers, Sequences, FiniteSets, TLC

VARIABLES
    \* ---- BackupScript_1_26_2024.py ----
    tz,                   \* the time zone of the machine the script runs on
    server,               \* layer -> editingInfo.lastEditDate (ms) held by the service
    jsonFile,             \* [exists, data, truncated]: the last_modified JSON file on disk
    bpc,                  \* position of the script
    fs_dict,              \* sequence of layer names, in the dict's insertion order
    idx,                  \* position of the running for loop
    last_modified_dates,  \* ordered dict: sequence of [title, date]
    error_layers,         \* set of layer names whose date lookup failed
    existing_data,        \* layer -> date string or NoDate
    runs,                 \* number of runs started
    \* history of the backup script (read by the properties only)
    startFile,            \* jsonFile as it was when the run started
    events,               \* what the run did, in order
    succeeded,            \* <<layer, date>> pairs for which downloadFS returned True
    logged                \* the run logged "... all modified data has been backed up."

backupVars == <<tz, server, jsonFile, bpc, fs_dict, idx, last_modified_dates,
                error_layers, existing_data, runs, startFile, events,
                succeeded, logged>>

    \* ---- split_csv.py ----
VARIABLES
    cpc,          \* position of split_csv
    infile,       \* the lines of the input file, the header line first
    chunk_size,   \* the parameter
    reader_pos,   \* number of lines the csv.reader has consumed
    header,       \* the parsed header row
    row,          \* the parsed row of the running iteration
    file_count,
    row_count,
    outFiles,     \* k -> the lines written to <base_name>_<k>.csv
    openOut       \* the k whose output file is open

csvVars == <<cpc, infile, chunk_size, reader_pos, header, row, file_count, row_count,
             outFiles, openOut>>

    \* ---- ArcPy_Functions.py, get_bbox ----
VARIABLES
    gpc,            \* position of get_bbox
    fc,             \* the extents of the features the SearchCursor yields, in order
    feature_index,  \* the parameter, NoIndex for None
    bbox            \* the value returned: [none, list]

bboxVars == <<gpc, fc, feature_index, bbox>>

    \* ---- ArcPy_Functions.py, scale_geom ----
VARIABLES
    spc,            \* position of scale_geom
    geom,           \* the parameter: [none, parts, centroid]
    scale,          \* the parameter, a fraction [num, den]
    reference,      \* the parameter: [none, X, Y]
    scaled          \* the outcome: [kind, parts]

scaleVars == <<spc, geom, scale, reference, scaled>>

vars == <<backupVars, csvVars, bboxVars, scaleVars>>

\* split_csv is not running
CsvIdle ==
    /\ cpc = "idle"
    /\ infile = <<>>
    /\ chunk_size = 0
    /\ reader_pos = 0
    /\ header = <<>>
    /\ row = <<>>
    /\ file_count = 0
    /\ row_count = 0
    /\ outFiles = <<>>
    /\ openOut = {}

\* the backup script is not running
BackupIdle ==
    /\ tz = ""
    /\ server = <<>>
    /\ jsonFile = [exists |-> FALSE, data |-> <<>>, truncated |-> FALSE]
    /\ bpc = "off"
    /\ fs_dict = <<>>
    /\ idx = 0
    /\ last_modified_dates = <<>>
    /\ error_layers = {}
    /\ existing_data = <<>>
    /\ runs = 0
    /\ startFile = [exists |-> FALSE, data |-> <<>>, truncated |-> FALSE]
    /\ events = <<>>
    /\ succeeded = {}
    /\ logged = FALSE

\* get_bbox is not running
BBoxIdle ==
    /\ gpc = "idle"
    /\ fc = <<>>
    /\ feature_index = 0
    /\ bbox = <<>>

\* scale_geom is not running
ScaleIdle ==
    /\ spc = "idle"
    /\ geom = <<>>
    /\ scale = <<>>
    /\ reference = <<>>
    /\ scaled = <<>>


(***************************************************************************)
(* BackupScript_1_26_2024.py                                               *)
(***************************************************************************)

\* bounds of the model
MaxRuns == 2
MaxTick == 6

\* the keys fs_dict may hold (two of the four layers of the script)
Layers == {"Points_of_Interest", "nps_boundary"}

\* lastEditDate is in milliseconds: line 69 divides it by 1000
MsPerSecond == 1000

\* the lastEditDate values the service may report: every half second
Timestamps == {(MsPerSecond * k) \div 2 : k \in 2..MaxTick}

\* dict.get(key) of a missing key: None
NoDate == 0

\* the time zones: one with a fixed offset (UTC), and one whose clock falls back
\* by an hour two seconds after the epoch (the transition of a zone with
\* daylight saving time, brought into the range of Timestamps)
TimeZones == {"fixed", "fallback"}
FallBackAt == 2 * MsPerSecond
FallBackBy == 3600 * MsPerSecond

\* the offset of the local wall clock from UTC at the instant ms
UtcOffset(ms) == IF tz = "fallback" /\ ms < FallBackAt THEN FallBackBy ELSE 0

\* datetime.datetime.fromtimestamp(ms / 1000): the naive datetime of the local
\* wall clock, kept in milliseconds
FromTimestamp(ms) == ms + UtcOffset(ms)

\* dt.strftime('%Y-%m-%d %H:%M:%S'): the string drops the fraction of the second;
\* the string is identified with the count of whole seconds it spells
Strftime(dt) == dt \div MsPerSecond

\* datetime.datetime.strptime(s, '%Y-%m-%d %H:%M:%S'): a datetime, in milliseconds
Strptime(s) == s * MsPerSecond

\* the dict with no key
EmptyDict == [l \in Layers |-> NoDate]

\* the JSON file: not on disk; holding the dict data; and empty, after a write
\* that failed once open(..., "w") had truncated it (it holds no date, and is
\* not JSON)
NoFile == [exists |-> FALSE, data |-> EmptyDict, truncated |-> FALSE]
FileOf(data) == [exists |-> TRUE, data |-> data, truncated |-> FALSE]
TruncatedFile == [exists |-> TRUE, data |-> EmptyDict, truncated |-> TRUE]

\* the fs_dict values of a run: the layers in any order, each at most once
FsDicts == {s \in UNION {[1..n -> Layers] : n \in 0..Cardinality(Layers)} :
               \A i, j \in DOMAIN s : i # j => s[i] # s[j]}

\* dict(last_modified_dates): the mapping the ordered dict holds
AsDict(lmd) == [l \in Layers |->
                  IF \E i \in DOMAIN lmd : lmd[i].title = l
                  THEN (CHOOSE r \in {lmd[i] : i \in DOMAIN lmd} : r.title = l).date
                  ELSE NoDate]

InitBackup ==
    /\ tz \in TimeZones
    /\ server \in [Layers -> Timestamps]
    /\ jsonFile = NoFile
    /\ bpc = "idle"
    /\ fs_dict = <<>>
    /\ idx = 1
    /\ last_modified_dates = <<>>
    /\ error_layers = {}
    /\ existing_data = EmptyDict
    /\ runs = 0
    /\ startFile = NoFile
    /\ events = <<>>
    /\ succeeded = {}
    /\ logged = FALSE
    /\ CsvIdle /\ BBoxIdle /\ ScaleIdle

\* lines 175-176: the script is started (by the scheduler); since the last run the
\* layers may have been edited and fs_dict changed (lines 42-44)
StartRun(fs, edited) ==
    /\ bpc \in {"idle", "done", "raised"}
    /\ runs < MaxRuns
    /\ \A l \in Layers : edited[l] >= server[l]
    /\ server' = edited
    /\ runs' = runs + 1
    /\ fs_dict' = fs
    /\ bpc' = "login"
    /\ idx' = 1
    /\ last_modified_dates' = <<>>
    /\ error_layers' = {}
    /\ existing_data' = EmptyDict
    /\ startFile' = jsonFile
    /\ events' = <<>>
    /\ logged' = FALSE
    /\ UNCHANGED <<csvVars, bboxVars, scaleVars>>
    /\ UNCHANGED <<tz, jsonFile, succeeded>>

\* line 62: GIS(...) returns, or raises and the exception leaves the function
Login(ok) ==
    /\ bpc = "login"
    /\ bpc' = IF ok THEN "dates" ELSE "raised"
    /\ events' = Append(events, [kind |-> "login", title |-> "", date |-> NoDate, ok |-> ok])
    /\ UNCHANGED <<csvVars, bboxVars, scaleVars>>
    /\ UNCHANGED <<tz, server, jsonFile, fs_dict, idx, last_modified_dates, error_layers,
                   existing_data, runs, startFile, succeeded, logged>>

\* lines 65-72: get_layer_modified_date; ok = FALSE is the except branch (None)
get_layer_modified_date(layer, ok) ==
    IF ok THEN FromTimestamp(server[layer]) ELSE NoDate

\* lines 124-130: one iteration of the loop over fs_dict.items()
GetDate(ok) ==
    /\ bpc = "dates"
    /\ idx <= Len(fs_dict)
    /\ LET fs_name == fs_dict[idx]
           modified_date == get_layer_modified_date(fs_name, ok)
       IN  /\ IF modified_date # NoDate
              THEN /\ last_modified_dates' =
                          Append(last_modified_dates,
                                 [title |-> fs_name, date |-> Strftime(modified_date)])
                   /\ UNCHANGED error_layers
              ELSE /\ error_layers' = error_layers \cup {fs_name}
                   /\ UNCHANGED last_modified_dates
           /\ events' = Append(events,
                  [kind |-> "lookup", title |-> fs_name,
                   date |-> IF modified_date # NoDate THEN Strftime(modified_date)
                            ELSE NoDate,
                   ok |-> ok])
    /\ idx' = idx + 1
    /\ UNCHANGED <<csvVars, bboxVars, scaleVars>>
    /\ UNCHANGED <<tz, server, jsonFile, bpc, fs_dict, existing_data, runs, startFile,
                   succeeded, logged>>

\* lines 137-140: the JSON file exists; json.load returns its content, or the
\* read raises and the exception leaves the function, as it always does on a
\* truncated file (JSONDecodeError)
LoadJson(ok) ==
    /\ bpc = "dates"
    /\ idx > Len(fs_dict)
    /\ jsonFile.exists
    /\ jsonFile.truncated => ~ok
    /\ IF ok
       THEN /\ existing_data' = jsonFile.data
            /\ bpc' = "compare"
       ELSE /\ bpc' = "raised"
            /\ UNCHANGED existing_data
    /\ idx' = 1
    /\ events' = Append(events, [kind |-> "load", title |-> "", date |-> NoDate, ok |-> ok])
    /\ UNCHANGED <<csvVars, bboxVars, scaleVars>>
    /\ UNCHANGED <<tz, server, jsonFile, fs_dict, last_modified_dates, error_layers, runs,
                   startFile, succeeded, logged>>

\* lines 158-161: the JSON file does not exist
NoJson ==
    /\ bpc = "dates"
    /\ idx > Len(fs_dict)
    /\ ~jsonFile.exists
    /\ existing_data' = AsDict(last_modified_dates)
    /\ bpc' = "first"
    /\ idx' = 1
    /\ UNCHANGED <<csvVars, bboxVars, scaleVars>>
    /\ UNCHANGED <<tz, server, jsonFile, fs_dict, last_modified_dates, error_layers, runs,
                   startFile, events, succeeded, logged>>

\* line 150 with >= in place of >: a layer that was not modified is downloaded again
NeedsBackupNotStrict(existing_date, new_date) ==
    \/ existing_date = NoDate
    \/ Strptime(new_date) >= Strptime(existing_date)

\* line 150: the condition under which downloadFS is called; the elif of line 147
\* evaluates the same comparison for the log only
NeedsBackup(existing_date, new_date) ==
    \/ existing_date = NoDate
    \/ Strptime(new_date) > Strptime(existing_date)

\* lines 151-155 without the test of downloadFS's result: the date is always stored
AfterDownloadAlwaysStores(data, fs_title, existing_date, new_date, ok) ==
    [data EXCEPT ![fs_title] = new_date]

\* lines 151-155: existing_data after downloadFS returned ok
AfterDownload(data, fs_title, existing_date, new_date, ok) ==
    IF ok THEN [data EXCEPT ![fs_title] = new_date]
    ELSE IF existing_date # NoDate THEN [data EXCEPT ![fs_title] = existing_date]
    ELSE data

\* lines 164-165: existing_data after downloadFS returned ok, first backup
AfterFirstDownload(data, fs_title, ok) ==
    IF ~ok THEN [data EXCEPT ![fs_title] = NoDate] ELSE data

\* lines 75-114: downloadFS returns True (line 111) or, after any exception,
\* False (line 114); it never raises
downloadFS(title, mod_date, ok) ==
    /\ events' = Append(events,
           [kind |-> "download", title |-> title, date |-> mod_date, ok |-> ok])
    /\ succeeded' = IF ok THEN succeeded \cup {<<title, mod_date>>} ELSE succeeded

\* lines 142-157: one iteration of the loop over last_modified_dates.items();
\* when downloadFS is not called there is no result, and ok is held TRUE
Compare(ok) ==
    /\ bpc = "compare"
    /\ idx <= Len(last_modified_dates)
    /\ LET fs_title == last_modified_dates[idx].title
           new_date == last_modified_dates[idx].date
           existing_date == existing_data[fs_title]
       IN  IF NeedsBackup(existing_date, new_date)
           THEN /\ downloadFS(fs_title, new_date, ok)
                /\ existing_data' =
                       AfterDownload(existing_data, fs_title, existing_date, new_date, ok)
           ELSE /\ ok
                /\ UNCHANGED <<events, succeeded, existing_data>>
    /\ idx' = idx + 1
    /\ UNCHANGED <<csvVars, bboxVars, scaleVars>>
    /\ UNCHANGED <<tz, server, jsonFile, bpc, fs_dict, last_modified_dates, error_layers,
                   runs, startFile, logged>>

\* lines 162-165: one iteration of the loop of the first backup
FirstBackup(ok) ==
    /\ bpc = "first"
    /\ idx <= Len(last_modified_dates)
    /\ LET fs_title == last_modified_dates[idx].title
           new_date == last_modified_dates[idx].date
       IN  /\ downloadFS(fs_title, new_date, ok)
           /\ existing_data' = AfterFirstDownload(existing_data, fs_title, ok)
    /\ idx' = idx + 1
    /\ UNCHANGED <<csvVars, bboxVars, scaleVars>>
    /\ UNCHANGED <<tz, server, jsonFile, bpc, fs_dict, last_modified_dates, error_layers,
                   runs, startFile, logged>>

\* lines 168-172: the JSON file is written and the closing message logged
\* (ok); or open(last_modified_file, "w") raises (a missing directory, a file
\* that cannot be written) and nothing is written (~opened); or open truncates
\* the file and json.dump or the close of the file raises (no space, an I/O
\* error), which leaves the file empty.  An exception leaves the function, and
\* nothing is logged
WriteJson(ok, opened) ==
    /\ bpc \in {"compare", "first"}
    /\ idx > Len(last_modified_dates)
    /\ ok => opened
    /\ jsonFile' = IF ok THEN FileOf(existing_data)
                   ELSE IF opened THEN TruncatedFile
                   ELSE jsonFile
    /\ events' = Append(events, [kind |-> "write", title |-> "", date |-> NoDate, ok |-> ok])
    /\ logged' = ok
    /\ bpc' = IF ok THEN "done" ELSE "raised"
    /\ UNCHANGED <<csvVars, bboxVars, scaleVars>>
    /\ UNCHANGED <<tz, server, fs_dict, idx, last_modified_dates, error_layers,
                   existing_data, runs, startFile, succeeded>>

BackupNext ==
    \/ \E fs \in FsDicts, edited \in [Layers -> Timestamps] : StartRun(fs, edited)
    \/ \E ok \in BOOLEAN : Login(ok)
    \/ \E ok \in BOOLEAN : GetDate(ok)
    \/ \E ok \in BOOLEAN : LoadJson(ok)
    \/ NoJson
    \/ \E ok \in BOOLEAN : Compare(ok)
    \/ \E ok \in BOOLEAN : FirstBackup(ok)
    \/ \E ok \in BOOLEAN, opened \in BOOLEAN : WriteJson(ok, opened)

(***************************************************************************)
(* Properties of the backup script                                         *)
(***************************************************************************)

\* the layers fs_dict holds in the run
FsLayers == {fs_dict[i] : i \in DOMAIN fs_dict}

\* the events of the run of one kind
EventsOf(kind) == {i \in DOMAIN events : events[i].kind = kind}

\* the layers downloadFS was called for in the run
Attempted == {events[i].title : i \in EventsOf("download")}

\* the call of downloadFS for layer l returned True in the run
Downloaded(l) == \E i \in EventsOf("download") : events[i].title = l /\ events[i].ok

\* the call of downloadFS for layer l returned False in the run
DownloadFailed(l) == \E i \in EventsOf("download") : events[i].title = l /\ ~events[i].ok

\* the layers whose retrieved date calls for a download: no baseline file, no
\* entry, or a date later than the stored one
Eligible == {l \in FsLayers :
                \E i \in EventsOf("lookup") :
                    /\ events[i].title = l
                    /\ events[i].ok
                    /\ \/ ~startFile.exists
                       \/ startFile.data[l] = NoDate
                       \/ events[i].date > startFile.data[l]}

\* C1: every date in the JSON file belongs to a download that returned True in
\* some run, and a completed run leaves the entry of a layer whose download
\* failed in that run as it was
BaselineOnlyFromSuccess ==
    /\ \A l \in Layers :
          jsonFile.data[l] # NoDate => <<l, jsonFile.data[l]>> \in succeeded
    /\ bpc = "done" =>
          \A l \in Layers : DownloadFailed(l) => jsonFile.data[l] = startFile.data[l]

\* C1 witness: a completed later run in which a download failed for a layer that
\* has a stored date, while the file holds dates
BaselineWitness ==
    /\ bpc = "done"
    /\ runs >= 2
    /\ \E l \in Layers : DownloadFailed(l) /\ startFile.data[l] # NoDate
    /\ \E l \in Layers : Downloaded(l) /\ jsonFile.data[l] # startFile.data[l]

\* C2: downloadFS is called only for eligible layers, with the retrieved date, at
\* most once per layer and run, and a completed run has called it for every
\* eligible layer
DownloadIffModified ==
    /\ Attempted \subseteq Eligible
    /\ \A i, j \in EventsOf("download") : events[i].title = events[j].title => i = j
    /\ \A i \in EventsOf("download") :
          \E j \in EventsOf("lookup") :
              /\ events[j].title = events[i].title
              /\ events[j].ok
              /\ events[j].date = events[i].date
    /\ bpc = "done" => Attempted = Eligible

\* C2 witness: a completed run over an existing file that downloaded one layer
\* with a later date and left alone one whose retrieved date precedes the stored
\* one (the layer was edited after the clock fell back)
DownloadWitness ==
    /\ bpc = "done"
    /\ startFile.exists
    /\ \E l \in FsLayers : l \in Attempted /\ startFile.data[l] # NoDate
    /\ \E l \in FsLayers :
          /\ l \notin Attempted
          /\ \E i \in EventsOf("lookup") :
                events[i].title = l /\ events[i].ok /\ events[i].date < startFile.data[l]

\* the lastEditDate values whose date string is s
StoredInstants(s) == {t \in Timestamps : Strftime(FromTimestamp(t)) = s}

\* layer l has no backup, or was edited in a later second than the one its
\* stored date stands for
ModifiedSince(l) ==
    \/ ~startFile.exists
    \/ startFile.data[l] = NoDate
    \/ \A t \in StoredInstants(startFile.data[l]) :
          server[l] \div MsPerSecond > t \div MsPerSecond

\* C7: once the closing message is logged, every layer of fs_dict that was
\* modified since its last backup was downloaded in the run and the file holds
\* its new date
AllModifiedBackedUp ==
    (bpc = "done" /\ logged) =>
        \A l \in FsLayers :
            ModifiedSince(l) =>
                /\ Downloaded(l)
                /\ jsonFile.data[l] = Strftime(FromTimestamp(server[l]))

\* C8: a run ends early only at the login or at the read of the JSON file, so
\* that every run that logs in and reads the file writes it; a completed run
\* has looked up every layer of fs_dict and attempted every eligible one
\* whatever failed before, and has written the file once, as its last step; no
\* download follows the write
FailuresIsolated ==
    /\ bpc = "raised" =>
          /\ events # <<>>
          /\ events[Len(events)].kind \in {"login", "load"}
          /\ ~events[Len(events)].ok
    /\ Cardinality(EventsOf("write")) <= 1
    /\ \A w \in EventsOf("write") : w = Len(events)
    /\ bpc = "done" =>
          /\ Cardinality(EventsOf("write")) = 1
          /\ {events[i].title : i \in EventsOf("lookup")} = FsLayers
          /\ Cardinality(EventsOf("lookup")) = Len(fs_dict)
          /\ Eligible \subseteq Attempted

\* the run is over: it returned, or an exception left the function
RunOver == bpc \in {"done", "raised"}

\* the run got past the login and the read of the JSON file
PastLoad ==
    /\ \E i \in EventsOf("login") : events[i].ok
    /\ startFile.exists => \E i \in EventsOf("load") : events[i].ok

\* what holds of the failures of a run: it ends early only at the login, at the
\* read of the JSON file or at its write; a run that got past the login and the
\* read has, when it is over, looked up every layer of fs_dict and attempted
\* every eligible one whatever failed before, and made one attempt to write the
\* file, as its last step, which wrote it, left it as it was or left it empty
IsolatedUntilWrite ==
    /\ bpc = "raised" =>
          /\ events # <<>>
          /\ events[Len(events)].kind \in {"login", "load", "write"}
          /\ ~events[Len(events)].ok
    /\ Cardinality(EventsOf("write")) <= 1
    /\ \A w \in EventsOf("write") : w = Len(events)
    /\ (RunOver /\ PastLoad) =>
          /\ Cardinality(EventsOf("write")) = 1
          /\ {events[i].title : i \in EventsOf("lookup")} = FsLayers
          /\ Cardinality(EventsOf("lookup")) = Len(fs_dict)
          /\ Eligible \subseteq Attempted
          /\ bpc = "done" => jsonFile = FileOf(existing_data) /\ events[Len(events)].ok
          /\ bpc = "raised" => jsonFile \in {startFile, TruncatedFile}

(***************************************************************************)
(* split_csv.py                                                            *)
(***************************************************************************)

\* bounds of the model
MaxRows == 4
MaxChunk == 3

\* the characters of the lines: a letter, the delimiter and the quote character
\* of the default dialect (the quote character is written q here)
Comma == ","
Quote == "q"

\* the header lines and the data lines of the input files:  a,a  and  "a,a" ;
\* a  "a,a"  a blank line  """"  "a"  ,  ""
HeaderLines == {<<"a", Comma, "a">>, <<Quote, "a", Comma, "a", Quote>>}
DataLines == {<<"a">>, <<Quote, "a", Comma, "a", Quote>>, <<>>,
              <<Quote, Quote, Quote, Quote>>, <<Quote, "a", Quote>>, <<Comma>>,
              <<Quote, Quote>>}

\* the input files: a header line and up to MaxRows data lines
InputFiles == {<<h>> \o d : h \in HeaderLines,
                            d \in UNION {[1..n -> DataLines] : n \in 0..MaxRows}}

\* csv.reader on one line (default dialect, not strict): the reader's state
\* machine over the characters of the line, then the end of the line
RECURSIVE reader_parse(_, _, _, _, _)
reader_parse(line, i, state, field, fields) ==
    IF i > Len(line)
    THEN IF state = "START_RECORD" THEN fields ELSE Append(fields, field)
    ELSE LET c == line[i]
         IN  CASE state \in {"START_RECORD", "START_FIELD"} ->
                    IF c = Quote
                    THEN reader_parse(line, i + 1, "IN_QUOTED_FIELD", <<>>, fields)
                    ELSE IF c = Comma
                    THEN reader_parse(line, i + 1, "START_FIELD", <<>>,
                                      Append(fields, <<>>))
                    ELSE reader_parse(line, i + 1, "IN_FIELD", <<c>>, fields)
               [] state = "IN_FIELD" ->
                    IF c = Comma
                    THEN reader_parse(line, i + 1, "START_FIELD", <<>>,
                                      Append(fields, field))
                    ELSE reader_parse(line, i + 1, "IN_FIELD", Append(field, c), fields)
               [] state = "IN_QUOTED_FIELD" ->
                    IF c = Quote
                    THEN reader_parse(line, i + 1, "QUOTE_IN_QUOTED_FIELD", field, fields)
                    ELSE reader_parse(line, i + 1, "IN_QUOTED_FIELD",
                                      Append(field, c), fields)
               [] state = "QUOTE_IN_QUOTED_FIELD" ->
                    IF c = Quote
                    THEN reader_parse(line, i + 1, "IN_QUOTED_FIELD",
                                      Append(field, c), fields)
                    ELSE IF c = Comma
                    THEN reader_parse(line, i + 1, "START_FIELD", <<>>,
                                      Append(fields, field))
                    ELSE reader_parse(line, i + 1, "IN_FIELD", Append(field, c), fields)

\* next(reader): the row of one line
ReadRow(line) == reader_parse(line, 1, "START_RECORD", <<>>, <<>>)

\* the field with every quote character doubled
RECURSIVE DoubleQuotes(_)
DoubleQuotes(field) ==
    IF field = <<>> THEN <<>>
    ELSE (IF Head(field) = Quote THEN <<Quote, Quote>> ELSE <<Head(field)>>)
         \o DoubleQuotes(Tail(field))

\* csv.writer with no quoting at all
WriteFieldUnquoted(field, alone) == field

\* csv.writer, QUOTE_MINIMAL: a field is quoted when it holds the delimiter or the
\* quote character, or when it is the empty only field of its row
WriteField(field, alone) ==
    IF (\E i \in DOMAIN field : field[i] \in {Comma, Quote}) \/ (alone /\ field = <<>>)
    THEN <<Quote>> \o DoubleQuotes(field) \o <<Quote>>
    ELSE field

\* the fields i.. of the row joined by the delimiter
RECURSIVE JoinFields(_, _)
JoinFields(r, i) ==
    IF i > Len(r) THEN <<>>
    ELSE WriteField(r[i], Len(r) = 1)
         \o (IF i < Len(r) THEN <<Comma>> ELSE <<>>)
         \o JoinFields(r, i + 1)

\* writer.writerow(row): the line written
writerow(r) == JoinFields(r, 1)

\* line 23 with > in place of >=: a file takes one row too many
NeedsNewFileLate(count, size) == count > size

\* line 23: the current file is full
NeedsNewFile(count, size) == count >= size

InitCsv ==
    /\ cpc = "start"
    /\ infile \in InputFiles
    /\ chunk_size \in 1..MaxChunk
    /\ reader_pos = 0
    /\ header = <<>>
    /\ row = <<>>
    /\ file_count = 0
    /\ row_count = 0
    /\ outFiles = <<>>
    /\ openOut = {}
    /\ BackupIdle /\ BBoxIdle /\ ScaleIdle

\* lines 7-20: the header is read, the first output file opened, the header written
SplitStart ==
    /\ cpc = "start"
    /\ header' = ReadRow(infile[1])
    /\ reader_pos' = 1
    /\ file_count' = 1
    /\ row_count' = 0
    /\ outFiles' = [k \in {1} |-> <<writerow(header')>>]
    /\ openOut' = openOut \cup {1}
    /\ cpc' = "loop"
    /\ UNCHANGED <<backupVars, bboxVars, scaleVars>>
    /\ UNCHANGED <<infile, chunk_size, row>>

\* lines 22-23: the reader yields the next row
NextRow ==
    /\ cpc = "loop"
    /\ reader_pos < Len(infile)
    /\ row' = ReadRow(infile[reader_pos + 1])
    /\ reader_pos' = reader_pos + 1
    /\ cpc' = IF NeedsNewFile(row_count, chunk_size) THEN "close" ELSE "write"
    /\ UNCHANGED <<backupVars, bboxVars, scaleVars>>
    /\ UNCHANGED <<infile, chunk_size, header, file_count, row_count, outFiles, openOut>>

\* line 25: outfile.close()
CloseFile ==
    /\ cpc = "close"
    /\ openOut' = openOut \ {file_count}
    /\ cpc' = "open"
    /\ UNCHANGED <<backupVars, bboxVars, scaleVars>>
    /\ UNCHANGED <<infile, chunk_size, reader_pos, header, row, file_count, row_count,
                   outFiles>>

\* lines 26-31: the next output file is opened (mode "w") and the header written
OpenNext ==
    /\ cpc = "open"
    /\ file_count' = file_count + 1
    /\ row_count' = 0
    /\ outFiles' = [k \in DOMAIN outFiles \cup {file_count'} |->
                       IF k = file_count' THEN <<writerow(header)>> ELSE outFiles[k]]
    /\ openOut' = openOut \cup {file_count'}
    /\ cpc' = "write"
    /\ UNCHANGED <<backupVars, bboxVars, scaleVars>>
    /\ UNCHANGED <<infile, chunk_size, reader_pos, header, row>>

\* lines 32-33: the row is written to the current file
WriteRow ==
    /\ cpc = "write"
    /\ outFiles' = [outFiles EXCEPT ![file_count] = Append(@, writerow(row))]
    /\ row_count' = row_count + 1
    /\ cpc' = "loop"
    /\ UNCHANGED <<backupVars, bboxVars, scaleVars>>
    /\ UNCHANGED <<infile, chunk_size, reader_pos, header, row, file_count, openOut>>

\* lines 22, 34: the reader is exhausted; the last output file is never closed by
\* the function
LoopEnd ==
    /\ cpc = "loop"
    /\ reader_pos = Len(infile)
    /\ cpc' = "done"
    /\ UNCHANGED <<backupVars, bboxVars, scaleVars>>
    /\ UNCHANGED <<infile, chunk_size, reader_pos, header, row, file_count, row_count,
                   outFiles, openOut>>

CsvNext ==
    \/ SplitStart
    \/ NextRow
    \/ CloseFile
    \/ OpenNext
    \/ WriteRow
    \/ LoopEnd

(***************************************************************************)
(* Properties of split_csv                                                 *)
(***************************************************************************)

\* the data rows of the input, as a csv.reader yields them
InputRows == [i \in 1..(Len(infile) - 1) |-> ReadRow(infile[i + 1])]

\* the data rows of output file k, as a csv.reader yields them
FileRows(k) == [i \in 1..(Len(outFiles[k]) - 1) |-> ReadRow(outFiles[k][i + 1])]

\* the data rows of the output files 1..k, in this order
RECURSIVE RowsUpTo(_)
RowsUpTo(k) == IF k = 0 THEN <<>> ELSE RowsUpTo(k - 1) \o FileRows(k)

\* the number of files an input of n rows should be split into
ExpectedFiles(n, size) ==
    IF n = 0 THEN 1 ELSE (n + size - 1) \div size

\* C3: once split_csv has returned, every output file starts with the header row
\* and holds at most chunk_size data rows, and the data rows of the files
\* 1..file_count in this order are the data rows of the input
SplitPreservesData ==
    cpc = "done" =>
        /\ \A k \in 1..file_count :
              /\ k \in DOMAIN outFiles
              /\ Len(outFiles[k]) >= 1
              /\ ReadRow(outFiles[k][1]) = ReadRow(infile[1])
              /\ Len(outFiles[k]) - 1 <= chunk_size
        /\ RowsUpTo(file_count) = InputRows

\* C3 witness: a split into several files of an input with a row that has to be
\* quoted and a blank line
SplitWitness ==
    /\ cpc = "done"
    /\ file_count >= 2
    /\ \E i \in DOMAIN InputRows : InputRows[i] = <<<<"a", Comma, "a">>>>
    /\ \E i \in DOMAIN InputRows : InputRows[i] = <<>>

\* C9: split_csv writes max(1, ceil(n / chunk_size)) files numbered from 1, all
\* full but the last, the last not empty unless the input has no data row, and
\* never has two output files open
SplitFileCount ==
    /\ Cardinality(openOut) <= 1
    /\ cpc = "done" =>
          LET n == Len(infile) - 1
          IN  /\ file_count = ExpectedFiles(n, chunk_size)
              /\ DOMAIN outFiles = 1..file_count
              /\ \A k \in 1..(file_count - 1) : Len(outFiles[k]) - 1 = chunk_size
              /\ n > 0 => /\ Len(outFiles[file_count]) - 1 >= 1
                          /\ Len(outFiles[file_count]) - 1 <= chunk_size
              /\ n = 0 => Len(outFiles[1]) = 1

\* C9 witness: an input whose row count is a multiple of chunk_size, split into
\* several files
SplitFileCountWitness ==
    /\ cpc = "done"
    /\ file_count >= 2
    /\ Len(infile) - 1 = file_count * chunk_size

(***************************************************************************)
(* ArcPy_Functions.py: get_bbox                                            *)
(***************************************************************************)

\* bounds of the model
MaxFeatures == 3
MaxCoord == 1

\* feature_index=None (line 8)
NoIndex == -1

\* the extents of a polygon feature: XMin <= XMax and YMin <= YMax
Extents == {e \in [XMin : 0..MaxCoord, XMax : 0..MaxCoord,
                   YMin : 0..MaxCoord, YMax : 0..MaxCoord] :
               e.XMin <= e.XMax /\ e.YMin <= e.YMax}

\* the feature classes: up to MaxFeatures features
FeatureClasses == UNION {[1..n -> Extents] : n \in 0..MaxFeatures}

\* Python's truth value of feature_index (line 21): None and 0 are false
Truthy(index) == index # NoIndex /\ index # 0

\* lines 23-25: the list returned for one row
ExtentList(extent) == <<extent.XMin, extent.YMin, extent.XMax, extent.YMax>>

\* lines 20-25: the loop from row i on (enumerate counts from 0); the function
\* falls off its end and returns None when no row returns
RECURSIVE get_bbox(_, _, _)
get_bbox(rows, index, i) ==
    IF i >= Len(rows) THEN [none |-> TRUE, list |-> <<>>]
    ELSE IF Truthy(index) /\ i = index
         THEN [none |-> FALSE, list |-> ExtentList(rows[i + 1])]
         ELSE get_bbox(rows, index, i + 1)

InitBBox ==
    /\ gpc = "start"
    /\ fc \in FeatureClasses
    /\ feature_index \in {NoIndex} \cup 0..MaxFeatures
    /\ bbox = <<>>
    /\ BackupIdle /\ CsvIdle /\ ScaleIdle

\* lines 19-25: the call of get_bbox(fc, feature_index)
GetBBox ==
    /\ gpc = "start"
    /\ bbox' = get_bbox(fc, feature_index, 0)
    /\ gpc' = "done"
    /\ UNCHANGED <<fc, feature_index>>
    /\ UNCHANGED <<backupVars, csvVars, scaleVars>>

BBoxNext ==
    \/ GetBBox

\* the smaller and the larger of two numbers
Min(a, b) == IF a <= b THEN a ELSE b
Max(a, b) == IF a >= b THEN a ELSE b

\* the bounding box of the features 1..n of the feature class
RECURSIVE UnionBox(_, _)
UnionBox(rows, n) ==
    IF n = 1 THEN ExtentList(rows[1])
    ELSE LET u == UnionBox(rows, n - 1)
             e == ExtentList(rows[n])
         IN  <<Min(u[1], e[1]), Min(u[2], e[2]), Max(u[3], e[3]), Max(u[4], e[4])>>

\* C4: for a non-empty feature class get_bbox returns the bounding box of the
\* whole class when feature_index is None, and the bounding box of the feature at
\* feature_index for every valid index, 0 included; it never returns None then
BBoxReturned ==
    (gpc = "done" /\ fc # <<>>) =>
        /\ feature_index = NoIndex =>
              ~bbox.none /\ bbox.list = UnionBox(fc, Len(fc))
        /\ feature_index \in 0..(Len(fc) - 1) =>
              ~bbox.none /\ bbox.list = ExtentList(fc[feature_index + 1])

(***************************************************************************)
(* ArcPy_Functions.py: scale_geom                                          *)
(***************************************************************************)

\* bound of the model: the number of entries (points and null points) of a geometry
MaxEntries == 3

\* the reference points, and the offsets of the vertices from the reference in
\* use: on the reference, right and left of it on its horizontal line, below it
\* and above it.  Their distance to the reference is a whole number of units
RefPoints == {[X |-> 0, Y |-> 0], [X |-> 1, Y |-> 2]}
Offsets == {<<0, 0>>, <<5, 0>>, <<-5, 0>>, <<3, -4>>, <<-4, 3>>}

\* the scale factors: 0, 1/2, 1 and 2
Scales == {[num |-> 0, den |-> 1], [num |-> 1, den |-> 2], [num |-> 1, den |-> 1],
           [num |-> 2, den |-> 1]}

\* The coordinates and every value computed from them are doubles.  A double
\* is kept as the number v it stands for and how far from it it may lie: not at
\* all ("none"), by rounding, on either side of v ("rounding"), or by the
\* square root of a rounding error, some 1e-8 ("root")
Errors == {"none", "rounding", "root"}
Dbl(v, err) == [v |-> v, err |-> err]

\* the error of a double that is exact, or rounded
Rounded(exact) == IF exact THEN "none" ELSE "rounding"

\* a null point of a part (the separator of two rings) and a point, whose
\* coordinates lie within err of X and Y
NullPoint == [null |-> TRUE, X |-> 0, Y |-> 0, err |-> "none"]
Point(x, y, err) == [null |-> FALSE, X |-> x, Y |-> y, err |-> err]

\* the entries a part may hold, given the reference in use.  In an exact
\* geometry the unit is 1 and the coordinates are the whole numbers X and Y; in
\* one that is not, the unit is any other (a tenth, 19.2) and the coordinates
\* are the doubles nearest to X and Y units
Entries(ref, exact) ==
    {NullPoint} \cup {Point(ref.X + o[1], ref.Y + o[2], Rounded(exact)) : o \in Offsets}

\* the parts made of the entries flat[1..n], a new part starting at every i with
\* brk[i]
RECURSIVE MakeParts(_, _, _)
MakeParts(flat, brk, n) ==
    IF n = 0 THEN <<>>
    ELSE LET before == MakeParts(flat, brk, n - 1)
         IN  IF n = 1 \/ brk[n]
             THEN Append(before, <<flat[n]>>)
             ELSE [before EXCEPT ![Len(before)] = Append(@, flat[n])]

\* n is the square of a whole number
IsSquare(n) == \E r \in 0..n : r * r = n

\* the whole number whose square is n
ISqrt(n) == CHOOSE r \in 0..n : r * r = n

\* the square of the distance of the points at X, Y
DistSq(p, q) == (p.X - q.X) * (p.X - q.X) + (p.Y - q.Y) * (p.Y - q.Y)

\* PointGeometry.distanceTo of two points whose distance is a whole number of
\* units: exact when their coordinates are
distanceTo(p, q, exact) == Dbl(ISqrt(DistSq(p, q)), Rounded(exact))

\* distanceTo(...)**2 of line 58: the distance is a double, and its square is
\* the squared distance exactly only when the distance is a whole number
distanceToSquared(p, q, exact) ==
    Dbl(DistSq(p, q), Rounded(exact /\ IsSquare(DistSq(p, q))))

\* A vertex on the horizontal line through the reference, right or left of it,
\* has a quotient (line 58) that stands for 1 or -1.  Computed from coordinates
\* that are not exact it comes out on that value, inside the interval from -1
\* to 1 by a few rounding errors, or outside of it; which of them depends on
\* the doubles, and is the same for equal vertices
Sides == {"right", "left"}
QuotientRoundings == {"on", "inside", "outside"}
Roundings == [Sides -> QuotientRoundings]
OnRoundings == [s \in Sides |-> "on"]

\* math.sin(math.acos(cosNum / cosDen)), times cosDen: acos gives an angle of 0
\* to pi, whose sine is not negative.  acos(1.0) = 0.0 and sin(0.0) = 0.0 are
\* exact; pi is not a double, and sin(acos(-1.0)) is a rounding error above 0.
\* Of a quotient inside of 1 or -1 by the rounding error e, the arc cosine and
\* the sine are sqrt(2 * e): 1.5e-8 and more
SinAcos(cosNum, cosDen, exact, how) ==
    Dbl(ISqrt(cosDen * cosDen - cosNum * cosNum),
        IF how = "inside" THEN "root" ELSE Rounded(exact /\ cosNum = cosDen))

\* lines 51-72 for one point apnt with the reference ref: the new point, in units
\* of 1/scale.den, or the exception of line 58.  The angle is kept as its cosine
\* cosNum/cosDen and its sine.  With bdist = 0 the division raises; of a
\* quotient outside of -1 to 1 acos raises; with a quotient inside, the sine
\* lifts the new point off the horizontal line by scaledist * sqrt(2 * e)
scale_point(apnt, ref, sc, exact, rounds) ==
    LET bdist == distanceTo(ref, apnt, exact)
        bpnt == Point(ref.X + bdist.v, ref.Y, bdist.err)
        adist == distanceTo(ref, bpnt, bdist.err = "none")
        cdistSq == distanceToSquared(apnt, bpnt, exact)
        cosNum == adist.v * adist.v + bdist.v * bdist.v - cdistSq.v
        cosDen == 2 * adist.v * bdist.v
        cosExact == adist.err = "none" /\ bdist.err = "none" /\ cdistSq.err = "none"
        how == IF cosExact THEN "on"
               ELSE IF cosNum = cosDen THEN rounds["right"]
               ELSE IF cosNum = -cosDen THEN rounds["left"]
               ELSE "on"
    IN  IF cosDen = 0 THEN [error |-> "ZeroDivisionError", point |-> NullPoint]
        ELSE IF how = "outside" THEN [error |-> "ValueError", point |-> NullPoint]
        ELSE LET acosSin == SinAcos(cosNum, cosDen, cosExact, how)
                 sinNum == IF apnt.Y < ref.Y THEN -acosSin.v ELSE acosSin.v
                 scaledistNum == bdist.v * sc.num
                 scalex == (scaledistNum * cosNum) \div cosDen + ref.X * sc.den
                 scaley == (scaledistNum * sinNum) \div cosDen + ref.Y * sc.den
                 err == IF acosSin.err = "root" /\ scaledistNum = 0 THEN "rounding"
                        ELSE acosSin.err
             IN  [error |-> "", point |-> Point(scalex, scaley, err)]

\* lines 45-50 without the append: the null point is dropped
DropNull(apnt) == <<>>

\* lines 45-50: a null point is passed on
PassNull(apnt) == <<apnt>>

\* lines 43-72: the loop over the points of a part from ptind on (counted from 1
\* here); newpart, or the exception that ends the call
RECURSIVE scale_part(_, _, _, _, _, _, _)
scale_part(part, ptind, ref, sc, exact, rounds, newpart) ==
    IF ptind > Len(part) THEN [error |-> "", points |-> newpart]
    ELSE LET apnt == part[ptind]
         IN  IF apnt.null
             THEN scale_part(part, ptind + 1, ref, sc, exact, rounds,
                             newpart \o PassNull(apnt))
             ELSE LET new == scale_point(apnt, ref, sc, exact, rounds)
                  IN  IF new.error # "" THEN [error |-> new.error, points |-> <<>>]
                      ELSE scale_part(part, ptind + 1, ref, sc, exact, rounds,
                                      Append(newpart, new.point))

\* lines 40-73: the loop over the parts from pind on; newparts, or the exception
RECURSIVE scale_parts(_, _, _, _, _, _, _)
scale_parts(parts, pind, ref, sc, exact, rounds, newparts) ==
    IF pind > Len(parts) THEN [kind |-> "geometry", parts |-> newparts]
    ELSE LET newpart == scale_part(parts[pind], 1, ref, sc, exact, rounds, <<>>)
         IN  IF newpart.error # "" THEN [kind |-> newpart.error, parts |-> <<>>]
             ELSE scale_parts(parts, pind + 1, ref, sc, exact, rounds,
                              Append(newparts, newpart.points))

\* lines 34-36: the reference in use
ReferenceUsed(g, r) == IF r.none THEN g.centroid ELSE [X |-> r.X, Y |-> r.Y]

\* lines 33-75: scale_geom(geom, scale, reference)
scale_geom(g, sc, r, rounds) ==
    IF g.none THEN [kind |-> "None", parts |-> <<>>]
    ELSE scale_parts(g.parts, 1, ReferenceUsed(g, r), sc, g.exact, rounds, <<>>)

\* the calls: no geometry, or a geometry of up to MaxEntries entries around the
\* reference in use, which is the centroid or the reference given
InitScale ==
    /\ spc = "start"
    /\ scale \in Scales
    /\ \E used \in RefPoints, other \in RefPoints, given \in BOOLEAN, isNone \in BOOLEAN :
          /\ other # used
          /\ reference = IF given THEN [none |-> FALSE, X |-> used.X, Y |-> used.Y]
                         ELSE [none |-> TRUE, X |-> 0, Y |-> 0]
          /\ IF isNone
             THEN geom = [none |-> TRUE, parts |-> <<>>, centroid |-> used,
                          exact |-> TRUE]
             ELSE \E n \in 0..MaxEntries, exact \in BOOLEAN :
                     \E flat \in [1..n -> Entries(used, exact)], brk \in [1..n -> BOOLEAN] :
                         geom = [none |-> FALSE,
                                 parts |-> MakeParts(flat, brk, n),
                                 centroid |-> IF given THEN other ELSE used,
                                 exact |-> exact]
    /\ scaled = <<>>
    /\ BackupIdle /\ CsvIdle /\ BBoxIdle

\* lines 27-75: the call of scale_geom.  How the quotients of the horizontal
\* vertices come out is fixed by the doubles of the geometry, of which the model
\* holds the values they stand for only: every way is taken
ScaleGeom(rounds) ==
    /\ spc = "start"
    /\ (geom.none \/ geom.exact) => rounds = OnRoundings
    /\ scaled' = scale_geom(geom, scale, reference, rounds)
    /\ spc' = "done"
    /\ UNCHANGED <<geom, scale, reference>>
    /\ UNCHANGED <<backupVars, csvVars, bboxVars>>

ScaleNext ==
    \/ \E rounds \in Roundings : ScaleGeom(rounds)

(***************************************************************************)
(* Properties of scale_geom                                                *)
(***************************************************************************)

\* the place reference + scale * (p - reference), in units of 1/scale.den
Rescaled(p, ref, sc) ==
    [X |-> ref.X * sc.den + sc.num * (p.X - ref.X),
     Y |-> ref.Y * sc.den + sc.num * (p.Y - ref.Y)]

\* the point q lies at the place r, to within the error of q
LiesAt(q, r) == ~q.null /\ q.X = r.X /\ q.Y = r.Y

\* the point q lies at the place r exactly or to within rounding
LiesAtRounded(q, r) == LiesAt(q, r) /\ q.err \in {"none", "rounding"}

\* C5: the call completes without error for every geometry, and every point of
\* the output lies, to within rounding, where the point of the input is moved
\* to by reference + scale * (p - reference)
ScaledAboutReference ==
    (spc = "done" /\ ~geom.none) =>
        /\ scaled.kind = "geometry"
        /\ Len(scaled.parts) = Len(geom.parts)
        /\ \A i \in DOMAIN geom.parts :
              /\ Len(scaled.parts[i]) = Len(geom.parts[i])
              /\ \A j \in DOMAIN geom.parts[i] :
                    ~geom.parts[i][j].null =>
                        LiesAtRounded(scaled.parts[i][j],
                                      Rescaled(geom.parts[i][j],
                                               ReferenceUsed(geom, reference), scale))

\* C6: a None geometry yields None; the output of a call that returns has the
\* parts of the input, each with as many entries, the null points where the
\* input has them, and, no reference given, its points scaled about the
\* centroid, to within the error of the computation of lines 51-70
RingStructureKept ==
    spc = "done" =>
        /\ geom.none => scaled.kind = "None"
        /\ ~geom.none => scaled.kind # "None"
        /\ scaled.kind = "geometry" =>
              /\ Len(scaled.parts) = Len(geom.parts)
              /\ \A i \in DOMAIN geom.parts :
                    /\ Len(scaled.parts[i]) = Len(geom.parts[i])
                    /\ \A j \in DOMAIN geom.parts[i] :
                          /\ scaled.parts[i][j].null <=> geom.parts[i][j].null
                          /\ (reference.none /\ ~geom.parts[i][j].null) =>
                                LiesAt(scaled.parts[i][j],
                                       Rescaled(geom.parts[i][j], geom.centroid, scale))

\* C6 witness: a returned call with no reference given and a scale other than 1,
\* on a geometry of two parts, one of them with a point and a null point
RingStructureWitness ==
    /\ spc = "done"
    /\ scaled.kind = "geometry"
    /\ reference.none
    /\ scale.num # scale.den
    /\ Len(geom.parts) = 2
    /\ \E i \in DOMAIN geom.parts :
          /\ \E j \in DOMAIN geom.parts[i] : geom.parts[i][j].null
          /\ \E j \in DOMAIN geom.parts[i] : ~geom.parts[i][j].null

(***************************************************************************)
(* Specifications                                                          *)
(***************************************************************************)

SpecBackup == InitBackup /\ [][BackupNext]_vars

SpecCsv == InitCsv /\ [][CsvNext]_vars

SpecBBox == InitBBox /\ [][BBoxNext]_vars

SpecScale == InitScale /\ [][ScaleNext]_vars

\* any one of the scripts
Init == InitBackup \/ InitCsv \/ InitBBox \/ InitScale

Next == BackupNext \/ CsvNext \/ BBoxNext \/ ScaleNext

Spec == Init /\ [][Next]_vars


====
